---- MODULE Spec2Model ----
(***************************************************************************)
(* Model of AlpacaRequester (src/src/alpaca_api/download.py): the          *)
(* paginated fetch loop get_bars, its sink writer write_bars, and the      *)
(* close_pbar_on_exception wrapper around it.                              *)
(*                                                                         *)
(* The provider is modelled as a finite chain of pages 0..nPages-1.  The   *)
(* page requested without a page_token is page 0; page i is requested with *)
(* the token Tok(i); the body of page i carries Tok(i+1), or None on the   *)
(* last page.  Every response (status, headers, body shape) is chosen by   *)
(* the provider when the request is issued.                                *)
(*                                                                         *)
(* Time is counted in ticks, TicksPerSecond ticks to a second, so that the *)
(* float arithmetic (reset - time.time()) * 0.5 is exact.                  *)
(***************************************************************************)
EXTENDS Integers, Sequences, FiniteSets, TLC

\* ----------------------------------------------------------------- bounds
MaxPages == 2
MaxRetries == 1

\* ------------------------------------------------------ program constants
RetryDelay == 5
TicksPerSecond == 1024
DefaultLimit == "10000"
None == "None"

\* ------------------------------------------------------------ environment
TokenNames == <<"t1", "t2", "t3", "t4", "t5">>
Tok(i) == TokenNames[i]
Tokens == {Tok(i) : i \in 1..MaxPages}
PageIndex(tok) == IF tok = None THEN 0 ELSE CHOOSE i \in 1..Len(TokenNames) : Tok(i) = tok

Statuses == {200, 429, 403, 500}
HeaderNames == {"X-RateLimit-Limit", "X-RateLimit-Remaining", "X-RateLimit-Reset"}
HeaderSets == {HeaderNames} \cup {HeaderNames \ {h} : h \in HeaderNames}
ResetOffsets == {-3, 100}
\* <<remaining, reset - now (seconds)>> as advertised by the provider
RateChoices == {<<1, 100>>} \cup {<<0, o>> : o \in ResetOffsets}

Tickers == {"AAPL", "TSLA"}
\* the calls get_bars(symbols, timeframe, api_options, verbose) of the model,
\* api_options without its optional resume page_token
CallChoices ==
    {[symbols |-> [kind |-> "str", value |-> "AAPL"], timeframe |-> "1Day",
      api_options |-> << >>, verbose |-> FALSE],
     [symbols |-> [kind |-> "list", value |-> <<"AAPL", "TSLA">>], timeframe |-> "1Day",
      api_options |-> << <<"sort", "asc">>, <<"limit", "1">> >>, verbose |-> TRUE]}

\* ------------------------------------------------------------------ state
VARIABLES
    pc,                   \* position of the innermost get_bars frame
    depth,                \* nested get_bars frames (wrapper + body) on the stack
    nPages,               \* provider: length of the page chain
    symbols, timeframe, api_options, verbose,     \* arguments of get_bars
    start_page_token, base_url, url,               \* locals of get_bars
    next_page_token, rate_limit, rate_limit_remaining, rate_limit_reset,
    num_pages,
    now,                  \* time.time(), in ticks
    files,                \* the sink files, by ticker
    files0,               \* history: the sink files when get_bars was called
    pbars, closed,        \* self.pbars and the progress bars closed so far
    pbarCount,            \* progress bars created so far
    handlers,             \* handlers of the "alpaca_api" logger
    exc,                  \* the exception in flight or raised to the caller
    requests,             \* history: GET requests issued in this run
    waits,                \* history: sleeps requested in this run
    self,                 \* the requester: api_key, api_secret, headers
    env,                  \* arguments of __init__, os.environ, the .env file
    logCalls              \* history: to_console of each configure_logging call

vars == <<pc, depth, nPages, symbols, timeframe, api_options, verbose,
          start_page_token, base_url, url, next_page_token, rate_limit,
          rate_limit_remaining, rate_limit_reset, num_pages, now, files, files0,
          pbars, closed, pbarCount, handlers, exc, requests, waits, self, env,
          logCalls>>

\* ------------------------------------------------- dict (ordered mapping)
DictHas(d, k) == \E i \in 1..Len(d) : d[i][1] = k
DictGet(d, k, default) ==
    IF DictHas(d, k) THEN d[CHOOSE i \in 1..Len(d) : d[i][1] = k][2] ELSE default
\* mutant: the key stays in the dict
DictPop_Keep(d, k) == d

\* d.pop(k, None), as the dict it leaves
DictPop(d, k) == SelectSeq(d, LAMBDA kv : kv[1] # k)

\* ---------------------------------------------------------- make_bars_url
\* the URL as its sequence of query parameters <<name, value>>
make_bars_url(syms, tf, kwargs) ==
    LET symlist == IF syms.kind = "str" THEN <<syms.value>> ELSE syms.value
        kw1 == IF ~DictHas(kwargs, "limit")
               THEN Append(kwargs, <<"limit", DefaultLimit>>) ELSE kwargs
        kw2 == IF DictHas(kw1, "sort") THEN DictPop(kw1, "sort") ELSE kw1
    IN  << <<"symbols", symlist>>, <<"timeframe", tf>> >> \o kw2

\* f"{base_url}&page_token={token}"
WithPageToken(base, token) == Append(base, <<"page_token", token>>)

\* url = base_url if start_page_token is None else f"{base_url}&page_token=..."
InitialUrl(base, start) == IF start = None THEN base ELSE WithPageToken(base, start)

\* mutant: the loop requests the base URL again instead of the next page
PageUrl_NoToken(base, token) == base

\* url = f"{base_url}&page_token={next_page_token}"
PageUrl(base, token) == WithPageToken(base, token)

PageTokensOf(u) == SelectSeq(u, LAMBDA kv : kv[1] = "page_token")

\* --------------------------------------------------------------- provider
\* the page a request URL addresses: the page of its last page_token, or page 0
PageOfUrl(u) ==
    LET pts == PageTokensOf(u)
    IN  IF pts = << >> THEN 0 ELSE PageIndex(pts[Len(pts)][2])

NextTokenOfPage(i, n) == IF i + 1 >= n THEN None ELSE Tok(i + 1)

\* the records of one series on page i
Entries(i) == [j \in 1..(2 - (i % 2)) |-> [t |-> 10 * i + j]]

\* the bars mappings a page may carry for the requested symbols: each symbol is
\* absent, present with its records, or present with an empty list of records
RECURSIVE BarsChoices(_, _)
BarsChoices(symlist, i) ==
    IF symlist = << >> THEN {<< >>}
    ELSE LET rest == BarsChoices(Tail(symlist), i)
             k    == Head(symlist)
         IN  rest
             \cup {<<[ticker |-> k, entries |-> Entries(i)]>> \o r : r \in rest}
             \cup {<<[ticker |-> k, entries |-> << >>]>> \o r : r \in rest}

SymList(syms) == IF syms.kind = "str" THEN <<syms.value>> ELSE syms.value

\* the 200 bodies the provider may send for page i of a chain of n pages
BodyChoices(syms, i, n) ==
    {[keys |-> {"bars", "next_page_token"}, next_page_token |-> NextTokenOfPage(i, n),
      bars |-> b] : b \in BarsChoices(SymList(syms), i)}
    \cup {[keys |-> ks, next_page_token |-> NextTokenOfPage(i, n), bars |-> << >>]
            : ks \in {{"bars"}, {"next_page_token"}}}

ResponseText(status) ==
    CASE status = 403 -> "forbidden"
      [] status = 429 -> "too many requests"
      [] status = 500 -> "internal server error"
      [] OTHER -> "ok"

\* the responses the provider may send at time clock to a request for page i
Responses(syms, i, n, clock) ==
    {[status |-> st, headers |-> hs, limit |-> 200, remaining |-> rc[1],
      reset |-> (clock \div TicksPerSecond) + rc[2], body |-> b,
      text |-> ResponseText(st)]
        : st \in Statuses, hs \in HeaderSets, rc \in RateChoices,
          b \in BodyChoices(syms, i, n)}

\* ------------------------------------------------------------- exceptions
NoExc == [type |-> "none", msg |-> << >>]
KeyError(key) == [type |-> "KeyError", msg |-> <<key>>]
ValueError(parts) == [type |-> "ValueError", msg |-> parts]

\* str(response.status_code) inside an f-string
StatusStr(status) ==
    CASE status = 200 -> "200"
      [] status = 403 -> "403"
      [] status = 429 -> "429"
      [] status = 500 -> "500"

AuthDetail == "Authentication headers are missing or invalid."

\* f"Error Status Code {response.status_code}: Authentication headers ..."
AuthErrorMsg(response) == <<"Error Status Code ", StatusStr(response.status), ": ", AuthDetail>>

\* mutant: the message of the loop's error carries the response text only
StatusErrorMsg_TextOnly(response) == <<"Error: ", response.text>>

\* f"Error Status Code {response.status_code}: {response.text}"
StatusErrorMsg(response) ==
    <<"Error Status Code ", StatusStr(response.status), ": ", response.text>>

\* time.sleep(secs) raises ValueError on a negative argument
SleepError == ValueError(<<"sleep length must be non-negative">>)

MsgContains(e, part) == \E i \in 1..Len(e.msg) : e.msg[i] = part

\* ----------------------------------------------------------- sink files
Header == [kind |-> "header", t |-> 0, url |-> << >>, next_page_token |-> None]
\* mutant: the next_page_token column left at its default
Row_NoToken(e, download_url, token) ==
    [kind |-> "row", t |-> e.t, url |-> download_url, next_page_token |-> None]

\* a record of entries_df with its 'url' and 'next_page_token' columns
Row(e, download_url, token) ==
    [kind |-> "row", t |-> e.t, url |-> download_url, next_page_token |-> token]

MissingFile == [exists |-> FALSE, lines |-> << >>]
EmptyFile == [exists |-> TRUE, lines |-> << >>]
\* a sink left by an earlier run: a header and one row
OldRow == [kind |-> "row", t |-> 0, url |-> << >>, next_page_token |-> None]
WrittenFile == [exists |-> TRUE, lines |-> <<Header, OldRow>>]
FileChoices == {MissingFile, EmptyFile, WrittenFile}

\* mutant: has_rows without the size check
HasRows_ExistsOnly(file) == file.exists

\* has_rows = path.is_file() and path.stat().st_size > 0
HasRows(file) == file.exists /\ Len(file.lines) > 0

\* mutant: to_csv without mode, which overwrites the file
ToCsv_Overwrite(file, rows, mode, header) ==
    [exists |-> TRUE, lines |-> (IF header THEN <<Header>> ELSE << >>) \o rows]

\* entries_df.to_csv(path, mode=..., header=..., index=False)
ToCsv(file, rows, mode, header) ==
    LET out == (IF header THEN <<Header>> ELSE << >>) \o rows
    IN  [exists |-> TRUE,
         lines |-> IF mode = "a" THEN file.lines \o out ELSE out]

\* one iteration of the loop of write_bars for one ticker
WriteSeries(file, entries, download_url, token) ==
    LET has_rows == HasRows(file)
        rows == [j \in 1..Len(entries) |-> Row(entries[j], download_url, token)]
    IN  ToCsv(file, rows, IF has_rows THEN "a" ELSE "w", ~has_rows)

\* write_bars(bars, download_url, next_page_token): the files after it, the
\* tickers it wrote, and the exception it raised (a series without records has
\* no column 't')
RECURSIVE WriteBars(_, _, _, _, _)
WriteBars(fs, bars, download_url, token, done) ==
    IF bars = << >> THEN [files |-> fs, written |-> done, exc |-> NoExc]
    ELSE LET s == Head(bars)
         IN  IF s.entries = << >>
             THEN [files |-> fs, written |-> done, exc |-> KeyError("t")]
             ELSE WriteBars([fs EXCEPT ![s.ticker] =
                                 WriteSeries(fs[s.ticker], s.entries, download_url, token)],
                            Tail(bars), download_url, token, Append(done, s.ticker))

\* ------------------------------------------------------ logger, progress
\* mutant: the handlers of earlier calls are kept
configure_logging_NoClear(hs, to_console) ==
    hs \o <<"file">> \o (IF to_console THEN <<"console">> ELSE << >>)

\* configure_logging(level, logfile_path, to_console)
configure_logging(hs, to_console) ==
    LET cleared == SelectSeq(hs, LAMBDA h : FALSE)
    IN  cleared \o <<"file">> \o (IF to_console THEN <<"console">> ELSE << >>)

\* (rate_limit_reset - time.time()) * 0.5, in ticks
ToWait(reset, clock) == ((reset * TicksPerSecond - clock) * 5) \div 10

\* the first header of hs (read in this order) that the response lacks, or None
MissingHeader(response, hs) ==
    IF \A i \in 1..Len(hs) : hs[i] \in response.headers THEN None
    ELSE hs[CHOOSE i \in 1..Len(hs) :
                /\ hs[i] \notin response.headers
                /\ \A j \in 1..(i - 1) : hs[j] \in response.headers]

\* body = response.json(); next_page_token = body['next_page_token'];
\* written = self.write_bars(body['bars'], url, next_page_token)
HandleBody(fs, body, download_url) ==
    IF "next_page_token" \notin body.keys
    THEN [files |-> fs, written |-> << >>, exc |-> KeyError("next_page_token")]
    ELSE IF "bars" \notin body.keys
    THEN [files |-> fs, written |-> << >>, exc |-> KeyError("bars")]
    ELSE WriteBars(fs, body.bars, download_url, body.next_page_token, << >>)

LogRequest(u, response, page, written, outcome) ==
    [url |-> u, status |-> response.status, headers |-> response.headers,
     page |-> page,
     token |-> response.body.next_page_token,
     bars |-> IF response.status = 200 /\ "bars" \in response.body.keys
              THEN response.body.bars ELSE << >>,
     written |-> written, outcome |-> outcome]

\* ------------------------------------------------------------- __init__
EnvNames == {"APCA_API_KEY_ID", "APCA_API_SECRET_KEY"}
NoEnviron == [k \in EnvNames |-> None]
NoDotenv == [found |-> FALSE, vars |-> NoEnviron, other |-> FALSE]

\* the .env files of the model: none, or one that sets each of the two
\* variables or not, and some other variable or not
DotenvChoices ==
    {NoDotenv}
    \cup {[found |-> TRUE,
           vars |-> [k \in EnvNames |-> IF k \in ks THEN "file_" \o k ELSE None],
           other |-> o] : ks \in SUBSET EnvNames, o \in BOOLEAN}
EnvironChoices ==
    {[k \in EnvNames |-> IF k \in ks THEN "env_" \o k ELSE None] : ks \in SUBSET EnvNames}

\* mutant: the .env file overrides the variables of os.environ
load_dotenv_Override(environ, dotenv) ==
    [ok |-> dotenv.found /\ (dotenv.other \/ \E k \in EnvNames : dotenv.vars[k] # None),
     environ |-> [k \in EnvNames |->
                     IF dotenv.vars[k] # None THEN dotenv.vars[k] ELSE environ[k]]]

\* load_dotenv(): the variables of the .env file are set in os.environ unless
\* already set there (override=False); true when the file holds a variable
load_dotenv(environ, dotenv) ==
    [ok |-> dotenv.found /\ (dotenv.other \/ \E k \in EnvNames : dotenv.vars[k] # None),
     environ |-> [k \in EnvNames |->
                     IF environ[k] # None THEN environ[k] ELSE dotenv.vars[k]]]

\* self.headers
AuthHeaders(key, secret) ==
    << <<"accept", "application/json">>, <<"APCA-API-KEY-ID", key>>,
       <<"APCA-API-SECRET-KEY", secret>> >>

Unconstructed == [api_key |-> None, api_secret |-> None, headers |-> << >>]

\* AlpacaRequester.__init__(api_key, api_secret): the exception raised or the
\* requester built, and os.environ after it
Construct(api_key, api_secret, environ, dotenv) ==
    IF api_key = None \/ api_secret = None
    THEN LET loaded == load_dotenv(environ, dotenv)
             key == loaded.environ["APCA_API_KEY_ID"]
             secret == loaded.environ["APCA_API_SECRET_KEY"]
         IN  IF loaded.ok
             THEN IF key = None \/ secret = None
                  THEN [exc |-> ValueError(<<"Please set the variables in the .env file">>),
                        self |-> Unconstructed, environ |-> loaded.environ]
                  ELSE [exc |-> NoExc,
                        self |-> [api_key |-> key, api_secret |-> secret,
                                  headers |-> AuthHeaders(key, secret)],
                        environ |-> loaded.environ]
             ELSE [exc |-> ValueError(<<"No .env file found">>),
                   self |-> Unconstructed, environ |-> loaded.environ]
    ELSE [exc |-> NoExc,
          self |-> [api_key |-> api_key, api_secret |-> api_secret,
                    headers |-> AuthHeaders(api_key, api_secret)],
          environ |-> environ]

\* ---------------------------------------------------------------- initial
\* the requester of the fetch model: AlpacaRequester(api_key='a', api_secret='b')
Init ==
    /\ env = [api_key |-> "a", api_secret |-> "b", environ |-> NoEnviron,
              dotenv |-> NoDotenv]
    /\ self = Construct(env.api_key, env.api_secret, env.environ, env.dotenv).self
    /\ logCalls = << >>
    /\ pc = "call"
    /\ depth = 0
    /\ nPages \in 1..MaxPages
    /\ \E c \in CallChoices :
        /\ symbols = c.symbols
        /\ timeframe = c.timeframe
        /\ verbose = c.verbose
        /\ api_options \in {c.api_options}
               \cup {Append(c.api_options, <<"page_token", Tok(i)>>) : i \in 1..(nPages - 1)}
    /\ start_page_token = None
    /\ base_url = << >>
    /\ url = << >>
    /\ next_page_token = None
    /\ rate_limit = -1
    /\ rate_limit_remaining = -1
    /\ rate_limit_reset = -1
    /\ num_pages = 0
    /\ now = 100 * TicksPerSecond
    /\ \E f \in FileChoices : files = [k \in Tickers |-> f]
    /\ files0 = files
    /\ pbars = {}
    /\ closed = {}
    /\ pbarCount = 0
    /\ handlers = <<"null">>
    /\ exc = NoExc
    /\ requests = << >>
    /\ waits = << >>

\* ---------------------------------------------------------------- actions
\* get_bars up to the initial request: logging, page_token popped from the
\* caller's api_options, the URLs, the progress bar
GetBarsEntry ==
    /\ pc = "call"
    /\ handlers' = configure_logging(handlers, verbose)
    /\ logCalls' = Append(logCalls, verbose)
    /\ start_page_token' = DictGet(api_options, "page_token", None)
    /\ api_options' = DictPop(api_options, "page_token")
    /\ base_url' = make_bars_url(symbols, timeframe, api_options')
    /\ url' = InitialUrl(base_url', start_page_token')
    /\ pbarCount' = pbarCount + 1
    /\ pbars' = pbars \cup {pbarCount'}
    /\ depth' = depth + 1
    /\ pc' = "initial_request"
    /\ UNCHANGED <<self, env, files0, nPages, symbols, timeframe, verbose, next_page_token, rate_limit,
                   rate_limit_remaining, rate_limit_reset, num_pages, now, files,
                   closed, exc, requests, waits>>

\* mutant: every status but 200 and 403 is treated as a rate limit and retried
InitialBranch_RetryOthers(status) ==
    IF status = 200 THEN "success"
    ELSE IF status = 403 THEN "forbidden"
    ELSE "rate_limited"

\* the if/elif chain on response.status_code after the initial request
InitialBranch(status) ==
    IF status = 200 THEN "success"
    ELSE IF status = 429 THEN "rate_limited"
    ELSE IF status = 403 THEN "forbidden"
    ELSE "other"

\* if response.status_code != 200 inside the loop
LoopBranch(status) == IF status # 200 THEN "error" ELSE "success"

AllHeaders == <<"X-RateLimit-Limit", "X-RateLimit-Remaining", "X-RateLimit-Reset">>
LoopHeaders == <<"X-RateLimit-Remaining", "X-RateLimit-Reset">>

\* the number of 429 responses received so far
RetriesSoFar == Cardinality({i \in 1..Len(requests) : requests[i].status = 429})

\* the initial request answered 200: headers, body, write_bars, num_pages = 1
InitialSuccess ==
    /\ pc = "initial_request"
    /\ \E response \in Responses(symbols, PageOfUrl(url), nPages, now) :
        /\ InitialBranch(response.status) = "success"
        /\ LET missing == MissingHeader(response, AllHeaders)
               handled == HandleBody(files, response.body, url)
           IN  IF missing # None
               THEN /\ exc' = KeyError(missing)
                    /\ pc' = "raise"
                    /\ next_page_token' = start_page_token
                    /\ requests' = Append(requests,
                           LogRequest(url, response, PageOfUrl(url), << >>, "error"))
                    /\ UNCHANGED <<rate_limit, rate_limit_remaining, rate_limit_reset,
                                   num_pages, files>>
               ELSE /\ rate_limit' = response.limit
                    /\ rate_limit_remaining' = response.remaining
                    /\ rate_limit_reset' = response.reset
                    /\ files' = handled.files
                    /\ IF handled.exc # NoExc
                       THEN /\ exc' = handled.exc
                            /\ pc' = "raise"
                            /\ next_page_token' =
                                   IF "next_page_token" \in response.body.keys
                                   THEN response.body.next_page_token
                                   ELSE start_page_token
                            /\ requests' = Append(requests,
                                   LogRequest(url, response, PageOfUrl(url),
                                              handled.written, "error"))
                            /\ UNCHANGED num_pages
                       ELSE /\ next_page_token' = response.body.next_page_token
                            /\ num_pages' = 1
                            /\ pc' = "loop"
                            /\ requests' = Append(requests,
                                   LogRequest(url, response, PageOfUrl(url),
                                              handled.written, "page"))
                            /\ UNCHANGED exc
    /\ UNCHANGED <<self, env, logCalls, depth, files0, nPages, symbols, timeframe, api_options, verbose,
                   start_page_token, base_url, url, now, pbars, closed, pbarCount,
                   handlers, waits>>

\* the initial request answered 429: headers logged, time.sleep(5), and
\* return self.get_bars(symbols, timeframe, api_options, verbose, logfile_path)
InitialRateLimited ==
    /\ pc = "initial_request"
    /\ RetriesSoFar < MaxRetries
    /\ \E response \in Responses(symbols, PageOfUrl(url), nPages, now) :
        /\ InitialBranch(response.status) = "rate_limited"
        /\ response.body.keys = {"bars", "next_page_token"} /\ response.body.bars = << >>
        /\ response.remaining = 0 /\ response.reset = (now \div TicksPerSecond) + 100
        /\ LET missing == MissingHeader(response, AllHeaders)
           IN  IF missing # None
               THEN /\ exc' = KeyError(missing)
                    /\ pc' = "raise"
                    /\ requests' = Append(requests,
                           LogRequest(url, response, PageOfUrl(url), << >>, "error"))
                    /\ UNCHANGED <<now, waits>>
               ELSE /\ now' = now + RetryDelay * TicksPerSecond
                    /\ waits' = Append(waits, [kind |-> "retry",
                                               ticks |-> RetryDelay * TicksPerSecond,
                                               remaining |-> response.remaining,
                                               reset |-> response.reset,
                                               clock |-> now])
                    /\ pc' = "call"
                    /\ requests' = Append(requests,
                           LogRequest(url, response, PageOfUrl(url), << >>, "retry"))
                    /\ UNCHANGED exc
    /\ next_page_token' = start_page_token
    /\ UNCHANGED <<self, env, logCalls, depth, files0, nPages, symbols, timeframe, api_options, verbose,
                   start_page_token, base_url, url, rate_limit, rate_limit_remaining,
                   rate_limit_reset, num_pages, files, pbars, closed, pbarCount,
                   handlers>>

\* the initial request answered 403: raise ValueError(error_msg).  The branch
\* reads neither headers nor body, so one response per status stands for all.
InitialForbidden ==
    /\ pc = "initial_request"
    /\ \E response \in Responses(symbols, PageOfUrl(url), nPages, now) :
        /\ InitialBranch(response.status) = "forbidden"
        /\ response.body.keys = {"bars", "next_page_token"} /\ response.body.bars = << >>
        /\ response.headers = HeaderNames /\ response.remaining = 1
        /\ exc' = ValueError(AuthErrorMsg(response))
        /\ requests' = Append(requests,
               LogRequest(url, response, PageOfUrl(url), << >>, "fatal"))
    /\ pc' = "raise"
    /\ next_page_token' = start_page_token
    /\ UNCHANGED <<self, env, logCalls, depth, files0, nPages, symbols, timeframe, api_options, verbose,
                   start_page_token, base_url, url, rate_limit, rate_limit_remaining,
                   rate_limit_reset, num_pages, now, files, pbars, closed, pbarCount,
                   handlers, waits>>

\* the initial request answered any other status: raise ValueError(error_msg)
InitialOtherStatus ==
    /\ pc = "initial_request"
    /\ \E response \in Responses(symbols, PageOfUrl(url), nPages, now) :
        /\ InitialBranch(response.status) = "other"
        /\ response.body.keys = {"bars", "next_page_token"} /\ response.body.bars = << >>
        /\ response.headers = HeaderNames /\ response.remaining = 1
        /\ exc' = ValueError(StatusErrorMsg(response))
        /\ requests' = Append(requests,
               LogRequest(url, response, PageOfUrl(url), << >>, "fatal"))
    /\ pc' = "raise"
    /\ next_page_token' = start_page_token
    /\ UNCHANGED <<self, env, logCalls, depth, files0, nPages, symbols, timeframe, api_options, verbose,
                   start_page_token, base_url, url, rate_limit, rate_limit_remaining,
                   rate_limit_reset, num_pages, now, files, pbars, closed, pbarCount,
                   handlers, waits>>

\* while True: if next_page_token is None: break   (then print and return)
FinishedFetching ==
    /\ pc = "loop"
    /\ next_page_token = None
    /\ pc' = "return"
    /\ UNCHANGED <<self, env, logCalls, depth, files0, nPages, symbols, timeframe, api_options, verbose,
                   start_page_token, base_url, url, next_page_token, rate_limit,
                   rate_limit_remaining, rate_limit_reset, num_pages, now, files,
                   pbars, closed, pbarCount, handlers, exc, requests, waits>>

\* elif rate_limit_remaining == 0: to_wait = ...; time.sleep(to_wait)
\* mutant: the pacing check without the termination check before it
ShouldWait_IgnoreToken(token, remaining) == remaining = 0

\* the loop got past "if next_page_token is None: break" and
\* "if rate_limit_remaining == 0" holds
ShouldWait(token, remaining) == token # None /\ remaining = 0

RateLimitWait ==
    /\ pc = "loop"
    /\ ShouldWait(next_page_token, rate_limit_remaining)
    /\ LET to_wait == ToWait(rate_limit_reset, now)
       IN  /\ waits' = Append(waits, [kind |-> "rate_limit", ticks |-> to_wait,
                                      remaining |-> rate_limit_remaining,
                                      reset |-> rate_limit_reset,
                                      clock |-> now])
           /\ IF to_wait < 0
              THEN /\ exc' = SleepError
                   /\ pc' = "raise"
                   /\ UNCHANGED now
              ELSE /\ now' = now + to_wait
                   /\ pc' = "page_request"
                   /\ UNCHANGED exc
    /\ UNCHANGED <<self, env, logCalls, depth, files0, nPages, symbols, timeframe, api_options, verbose,
                   start_page_token, base_url, url, next_page_token, rate_limit,
                   rate_limit_remaining, rate_limit_reset, num_pages, files,
                   pbars, closed, pbarCount, handlers, requests>>

\* the request of the loop is issued after the wait, or at once when neither
\* branch of the if applies
AtPageRequest ==
    \/ pc = "page_request"
    \/ pc = "loop" /\ next_page_token # None
                   /\ ~ShouldWait(next_page_token, rate_limit_remaining)

\* a request of the loop answered 200: body, write_bars, num_pages += 1,
\* then the rate-limit headers
PageSuccess ==
    /\ AtPageRequest
    /\ url' = PageUrl(base_url, next_page_token)
    /\ \E response \in Responses(symbols, PageOfUrl(url'), nPages, now) :
        /\ LoopBranch(response.status) = "success"
        /\ LET handled == HandleBody(files, response.body, url')
               missing == MissingHeader(response, LoopHeaders)
           IN  /\ files' = handled.files
               /\ IF handled.exc # NoExc
                  THEN /\ exc' = handled.exc
                       /\ pc' = "raise"
                       /\ next_page_token' =
                              IF "next_page_token" \in response.body.keys
                              THEN response.body.next_page_token
                              ELSE next_page_token
                       /\ requests' = Append(requests,
                              LogRequest(url', response, PageOfUrl(url'),
                                         handled.written, "error"))
                       /\ UNCHANGED <<num_pages, rate_limit_remaining, rate_limit_reset>>
                  ELSE /\ next_page_token' = response.body.next_page_token
                       /\ num_pages' = num_pages + 1
                       /\ IF missing # None
                          THEN /\ exc' = KeyError(missing)
                               /\ pc' = "raise"
                               /\ rate_limit_remaining' =
                                      IF missing = "X-RateLimit-Reset"
                                      THEN response.remaining ELSE rate_limit_remaining
                               /\ UNCHANGED rate_limit_reset
                               /\ requests' = Append(requests,
                                      LogRequest(url', response, PageOfUrl(url'),
                                                 handled.written, "error"))
                          ELSE /\ rate_limit_remaining' = response.remaining
                               /\ rate_limit_reset' = response.reset
                               /\ pc' = "loop"
                               /\ requests' = Append(requests,
                                      LogRequest(url', response, PageOfUrl(url'),
                                                 handled.written, "page"))
                               /\ UNCHANGED exc
    /\ UNCHANGED <<self, env, logCalls, depth, files0, nPages, symbols, timeframe, api_options, verbose,
                   start_page_token, base_url, rate_limit, now, pbars, closed,
                   pbarCount, handlers, waits>>

\* a request of the loop answered anything but 200: raise ValueError
PageFailure ==
    /\ AtPageRequest
    /\ url' = PageUrl(base_url, next_page_token)
    /\ \E response \in Responses(symbols, PageOfUrl(url'), nPages, now) :
        /\ LoopBranch(response.status) = "error"
        /\ response.body.keys = {"bars", "next_page_token"} /\ response.body.bars = << >>
        /\ response.headers = HeaderNames /\ response.remaining = 1
        /\ exc' = ValueError(StatusErrorMsg(response))
        /\ requests' = Append(requests,
               LogRequest(url', response, PageOfUrl(url'), << >>, "fatal"))
    /\ pc' = "raise"
    /\ UNCHANGED <<self, env, logCalls, depth, files0, nPages, symbols, timeframe, api_options, verbose,
                   start_page_token, base_url, next_page_token, rate_limit,
                   rate_limit_remaining, rate_limit_reset, num_pages, now, files,
                   pbars, closed, pbarCount, handlers, waits>>

\* ------------------------------------------- close_pbar_on_exception
\* mutant: the bars are closed but stay in self.pbars
close_pbars_NoClear(bars) == bars

\* close_pbars(): every bar of self.pbars closed, the set cleared
close_pbars(bars) == {}

\* wrapper: output = func(...); self.close_pbars(); return output
WrapperReturn ==
    /\ pc = "return"
    /\ depth > 0
    /\ closed' = closed \cup pbars
    /\ pbars' = close_pbars(pbars)
    /\ depth' = depth - 1
    /\ pc' = IF depth' = 0 THEN "returned" ELSE "return"
    /\ UNCHANGED <<self, env, logCalls, files0, nPages, symbols, timeframe, api_options, verbose,
                   start_page_token, base_url, url, next_page_token, rate_limit,
                   rate_limit_remaining, rate_limit_reset, num_pages, now, files,
                   pbarCount, handlers, exc, requests, waits>>

\* wrapper: except BaseException: self.close_pbars(); raise
WrapperRaise ==
    /\ pc = "raise"
    /\ depth > 0
    /\ closed' = closed \cup pbars
    /\ pbars' = close_pbars(pbars)
    /\ depth' = depth - 1
    /\ pc' = IF depth' = 0 THEN "raised" ELSE "raise"
    /\ UNCHANGED <<self, env, logCalls, files0, nPages, symbols, timeframe, api_options, verbose,
                   start_page_token, base_url, url, next_page_token, rate_limit,
                   rate_limit_remaining, rate_limit_reset, num_pages, now, files,
                   pbarCount, handlers, exc, requests, waits>>

Next ==
    \/ GetBarsEntry
    \/ InitialSuccess
    \/ InitialRateLimited
    \/ InitialForbidden
    \/ InitialOtherStatus
    \/ FinishedFetching
    \/ RateLimitWait
    \/ PageSuccess
    \/ PageFailure
    \/ WrapperReturn
    \/ WrapperRaise

Spec == Init /\ [][Next]_vars

\* ------------------------------------ constructor and logging on their own
MaxLogCalls == 2

\* before AlpacaRequester(...) is evaluated, with any arguments, environment
\* and .env file
CtorInit ==
    /\ pc = "new"
    /\ \E k \in {None, "a"}, sec \in {None, "b"}, e \in EnvironChoices, d \in DotenvChoices :
        env = [api_key |-> k, api_secret |-> sec, environ |-> e, dotenv |-> d]
    /\ self = Unconstructed
    /\ logCalls = << >>
    /\ handlers = <<"null">>
    /\ exc = NoExc
    /\ depth = 0
    /\ nPages = 1
    /\ symbols = [kind |-> "str", value |-> "AAPL"]
    /\ timeframe = "1Day"
    /\ api_options = << >>
    /\ verbose = FALSE
    /\ start_page_token = None
    /\ base_url = << >>
    /\ url = << >>
    /\ next_page_token = None
    /\ rate_limit = -1
    /\ rate_limit_remaining = -1
    /\ rate_limit_reset = -1
    /\ num_pages = 0
    /\ now = 100 * TicksPerSecond
    /\ files = [k \in Tickers |-> MissingFile]
    /\ files0 = files
    /\ pbars = {}
    /\ closed = {}
    /\ pbarCount = 0
    /\ requests = << >>
    /\ waits = << >>

\* AlpacaRequester(api_key, api_secret)
NewRequester ==
    /\ pc = "new"
    /\ LET built == Construct(env.api_key, env.api_secret, env.environ, env.dotenv)
       IN  /\ self' = built.self
           /\ exc' = built.exc
           /\ env' = [env EXCEPT !.environ = built.environ]
           /\ pc' = IF built.exc = NoExc THEN "constructed" ELSE "init_raised"
    /\ UNCHANGED <<logCalls, handlers, depth, files0, nPages, symbols, timeframe,
                   api_options, verbose, start_page_token, base_url, url,
                   next_page_token, rate_limit, rate_limit_remaining, rate_limit_reset,
                   num_pages, now, files, pbars, closed, pbarCount, requests, waits>>

\* AlpacaRequester.configure_logging(to_console=...), a static method
ConfigureLogging ==
    /\ pc \in {"new", "constructed", "init_raised"}
    /\ Len(logCalls) < MaxLogCalls
    /\ \E to_console \in BOOLEAN :
        /\ handlers' = configure_logging(handlers, to_console)
        /\ logCalls' = Append(logCalls, to_console)
    /\ UNCHANGED <<self, env, exc, pc, depth, files0, nPages, symbols, timeframe,
                   api_options, verbose, start_page_token, base_url, url,
                   next_page_token, rate_limit, rate_limit_remaining, rate_limit_reset,
                   num_pages, now, files, pbars, closed, pbarCount, requests, waits>>

CtorNext ==
    \/ NewRequester
    \/ ConfigureLogging

CtorSpec == CtorInit /\ [][CtorNext]_vars

\* ================================================================= claims
Terminated == pc \in {"returned", "raised"}
Failing == pc \in {"raise", "raised"}
NumRequests == Len(requests)
LastRequest == requests[NumRequests]
TickersOf(bars) == [j \in 1..Len(bars) |-> bars[j].ticker]
Max(a, b) == IF a >= b THEN a ELSE b

\* the page the run starts from: the page of the resume token of the call
StartPage == IF NumRequests = 0 THEN 0 ELSE requests[1].page

\* every response so far was a well-formed 200 that get_bars processed in full
AllPagesProcessed == \A i \in 1..NumRequests : requests[i].outcome = "page"

\* C1: on a chain of n+1 pages that all answer 200, a terminated run has issued
\* exactly n+1 requests, one per page in chain order, has appended once per page
\* to the sink of every series of that page, and has returned normally.
C1_OneRequestPerPage ==
    (Terminated /\ AllPagesProcessed) =>
        /\ pc = "returned"
        /\ NumRequests = nPages - StartPage
        /\ \A i \in 1..NumRequests :
            /\ requests[i].page = StartPage + i - 1
            /\ requests[i].written = TickersOf(requests[i].bars)

\* C2: the page_token of request N+1 is the next_page_token of the body of page
\* N, and a URL that was fetched successfully is never requested again.
C2_TokenChain ==
    /\ \A i \in 1..(NumRequests - 1) :
        requests[i].status = 200 =>
            PageTokensOf(requests[i + 1].url) = << <<"page_token", requests[i].token>> >>
    /\ \A i \in 1..NumRequests : \A j \in (i + 1)..NumRequests :
        requests[i].status = 200 =>
            /\ requests[j].url # requests[i].url
            /\ requests[j].page # requests[i].page

\* C2 witness: a run that was called with a resume token, saw a 429, and then
\* requested a second page with the token of the first page
C2_Witness ==
    /\ NumRequests = 3
    /\ requests[1].status = 429
    /\ PageTokensOf(requests[1].url) # << >>
    /\ requests[2].outcome = "page"
    /\ requests[3].outcome = "page"

\* C3: the request that follows a 429 has the URL of the request that received
\* the 429, and the 429 response writes nothing.
C3_RetrySameUrl ==
    \A i \in 1..(NumRequests - 1) :
        requests[i].status = 429 =>
            /\ requests[i + 1].url = requests[i].url
            /\ requests[i].written = << >>

\* C4: a run never fails with the status error of a 429 response, whichever
\* request received it.
C4_429NeverTerminal ==
    Failing => ~(exc.type = "ValueError" /\ MsgContains(exc, "429"))

\* C5: a 403 response is the last request of its run, and the run fails with a
\* ValueError whose message contains "403".
C5_403Fatal ==
    \A i \in 1..NumRequests :
        requests[i].status = 403 =>
            /\ i = NumRequests
            /\ Failing
            /\ exc.type = "ValueError"
            /\ MsgContains(exc, "403")

\* C5 witness: the run has ended with the 403 of the request for the second page
C5_Witness ==
    /\ pc = "raised"
    /\ NumRequests = 2
    /\ requests[1].outcome = "page"
    /\ requests[2].status = 403

OtherStatus(status) == status \notin {200, 429, 403}

\* C6: a request answered with a status outside {200, 429, 403} writes nothing,
\* raises a ValueError at once, and no request is issued after it.
C6_OtherStatusFatal ==
    [][/\ (NumRequests' = NumRequests + 1 /\ OtherStatus(requests'[NumRequests'].status)) =>
            /\ files' = files
            /\ pc' = "raise"
            /\ exc'.type = "ValueError"
       /\ (NumRequests > 0 /\ OtherStatus(LastRequest.status)) =>
            /\ requests' = requests
            /\ files' = files
            /\ pc' \in {"raise", "raised"}
            /\ exc' = exc]_vars

\* C6 witness: the run has ended with the 500 of the request for the second
\* page, after the first page was written
C6_Witness ==
    /\ pc = "raised"
    /\ NumRequests = 2
    /\ requests[1].written # << >>
    /\ requests[2].status = 500

\* C7: every rate-limit wait is computed with remaining == 0 and equals
\* max(0, (reset - now) * 0.5), so it is never negative.
C7_WaitIsHalfWindow ==
    \A i \in 1..Len(waits) :
        waits[i].kind = "rate_limit" =>
            /\ waits[i].remaining = 0
            /\ waits[i].ticks =
                   Max(0, ((waits[i].reset * TicksPerSecond - waits[i].clock) * 5) \div 10)

\* the rows the provider's page i holds for one series, with their provenance
PageRows(i) ==
    [j \in 1..Len(Entries(requests[i].page)) |->
        [kind |-> "row", t |-> Entries(requests[i].page)[j].t, url |-> requests[i].url,
         next_page_token |-> NextTokenOfPage(requests[i].page, nPages)]]

InSeq(x, seq) == \E j \in 1..Len(seq) : seq[j] = x

\* the lines sink k holds once the appends of requests i.. follow lines
RECURSIVE Replay(_, _, _)
Replay(lines, k, i) ==
    IF i > NumRequests THEN lines
    ELSE IF InSeq(k, requests[i].written)
         THEN Replay((IF lines = << >> THEN <<Header>> ELSE lines) \o PageRows(i), k, i + 1)
         ELSE Replay(lines, k, i + 1)

Appended(k) == SubSeq(files[k].lines, Len(files0[k].lines) + 1, Len(files[k].lines))

\* C9: every row appended to a sink carries the URL of the request that fetched
\* its page and the next_page_token of the body of that page.
C9_Provenance ==
    \A k \in Tickers : \A j \in 1..Len(Appended(k)) :
        LET line == Appended(k)[j]
        IN  line.kind = "row" =>
                \E i \in 1..NumRequests :
                    /\ requests[i].status = 200
                    /\ requests[i].page = line.t \div 10
                    /\ \E e \in 1..Len(requests[i].bars) : requests[i].bars[e].ticker = k
                    /\ line.url = requests[i].url
                    /\ line.next_page_token = requests[i].token

\* C9 witness: a sink holds a row of the first page, with the token of the
\* second page, and a row of the last page, with no token
C9_Witness ==
    \E k \in Tickers : \E a, b \in 1..Len(Appended(k)) :
        /\ Appended(k)[a].kind = "row"
        /\ Appended(k)[a].next_page_token # None
        /\ PageTokensOf(Appended(k)[a].url) = << >>
        /\ Appended(k)[b].kind = "row"
        /\ Appended(k)[b].next_page_token = None
        /\ PageTokensOf(Appended(k)[b].url) # << >>

\* C10: a sink that is not empty starts with its only header row, and a write
\* keeps every line the sink held before.
C10_OneHeaderFirst ==
    \A k \in Tickers :
        /\ files[k].lines # << >> =>
            /\ files[k].exists
            /\ files[k].lines[1].kind = "header"
            /\ \A j \in 2..Len(files[k].lines) : files[k].lines[j].kind = "row"
        /\ Len(files0[k].lines) <= Len(files[k].lines)
        /\ SubSeq(files[k].lines, 1, Len(files0[k].lines)) = files0[k].lines

\* C10 witness: a sink that was an empty file before the call has received the
\* appends of two pages
C10_Witness ==
    \E k \in Tickers :
        /\ files0[k] = EmptyFile
        /\ NumRequests = 2
        /\ InSeq(k, requests[1].written)
        /\ InSeq(k, requests[2].written)


\* the sleeps of the 429 branch so far
RetryWaits == {i \in 1..Len(waits) : waits[i].kind = "retry"}

\* C11: every 429 response that carries the rate-limit headers is answered
\* with a retry after a wait of 5 seconds, never with a failure, and a run in
\* which every other response was a well-formed 200 page returns normally.
C11_RetryForever ==
    /\ \A i \in 1..NumRequests :
        (requests[i].status = 429 /\ requests[i].headers = HeaderNames) =>
            requests[i].outcome = "retry"
    /\ Cardinality(RetryWaits) =
           Cardinality({i \in 1..NumRequests :
                           requests[i].status = 429 /\ requests[i].headers = HeaderNames})
    /\ \A i \in RetryWaits : waits[i].ticks = RetryDelay * TicksPerSecond
    /\ (Terminated /\ \A i \in 1..NumRequests : requests[i].outcome \in {"page", "retry"}) =>
           pc = "returned"

\* C12: a run that fails on the status of a response raises an error whose
\* message carries the status code and the text of that response.
C12_StatusAndText ==
    (Failing /\ NumRequests > 0 /\ LastRequest.outcome = "fatal") =>
        /\ exc.type = "ValueError"
        /\ MsgContains(exc, StatusStr(LastRequest.status))
        /\ MsgContains(exc, ResponseText(LastRequest.status))

\* C13: a 200 response that lacks a rate-limit header is processed as a page:
\* its series are written, the run does not fail on it, and no rate-limit wait
\* follows it.
C13_MissingHeadersTolerated ==
    \A i \in 1..NumRequests :
        (requests[i].status = 200 /\ requests[i].headers # HeaderNames) =>
            /\ requests[i].outcome = "page"
            /\ requests[i].written = TickersOf(requests[i].bars)

\* the response of request i had its headers, and get_bars failed on its body
DataShapeFailure(i) ==
    /\ requests[i].status = 200
    /\ requests[i].headers = HeaderNames
    /\ requests[i].outcome = "error"

\* C14: a page whose body has not the expected shape ends the run with the
\* error, is the last request of the run, and adds no row to any sink.
C14_NoPartialPage ==
    \A i \in 1..NumRequests :
        DataShapeFailure(i) =>
            /\ i = NumRequests
            /\ Failing
            /\ exc.type = "KeyError"
            /\ requests[i].written = << >>


\* both credentials were passed to __init__
BothArgs == env.api_key # None /\ env.api_secret # None

\* the .env file was found and defines both variables
DotenvDefinesBoth == env.dotenv.found /\ \A k \in EnvNames : env.dotenv.vars[k] # None

\* the .env file was found and holds a variable
DotenvHoldsVariable ==
    env.dotenv.found /\ (env.dotenv.other \/ \E k \in EnvNames : env.dotenv.vars[k] # None)

\* what os.getenv(k) returns once the .env file is loaded
Effective(k) == IF env.environ[k] # None THEN env.environ[k] ELSE env.dotenv.vars[k]

\* C15 as stated: a requester built from both arguments holds them; one built
\* with an argument missing exists only when the .env file defines both
\* variables, and holds the values of the file; a failed construction raised
\* ValueError.
C15_Original ==
    /\ (pc = "constructed" /\ BothArgs) =>
           /\ self.api_key = env.api_key
           /\ self.api_secret = env.api_secret
           /\ self.headers = AuthHeaders(env.api_key, env.api_secret)
    /\ (pc = "constructed" /\ ~BothArgs) =>
           /\ DotenvDefinesBoth
           /\ self.api_key = env.dotenv.vars["APCA_API_KEY_ID"]
           /\ self.api_secret = env.dotenv.vars["APCA_API_SECRET_KEY"]
    /\ pc = "init_raised" => exc.type = "ValueError"

\* C15: with both arguments __init__ stores them, puts them in the headers and
\* leaves the environment alone; with an argument missing it succeeds exactly
\* when the .env file is found and holds a variable and, once that file is
\* loaded without overriding, both variables are set in the environment, and it
\* stores the values of the environment; otherwise it raises ValueError and
\* builds nothing, so a requester never lacks a credential.
C15_Credentials ==
    [][(pc = "new" /\ pc' # "new") =>
        /\ BothArgs =>
            /\ pc' = "constructed"
            /\ self'.api_key = env.api_key
            /\ self'.api_secret = env.api_secret
            /\ env' = env
        /\ ~BothArgs =>
            /\ pc' = "constructed" <=>
                   (DotenvHoldsVariable /\ \A k \in EnvNames : Effective(k) # None)
            /\ pc' = "constructed" =>
                /\ self'.api_key = Effective("APCA_API_KEY_ID")
                /\ self'.api_secret = Effective("APCA_API_SECRET_KEY")
        /\ pc' = "constructed" =>
            /\ self'.api_key # None
            /\ self'.api_secret # None
            /\ self'.headers = AuthHeaders(self'.api_key, self'.api_secret)
        /\ pc' # "constructed" =>
            /\ pc' = "init_raised"
            /\ exc'.type = "ValueError"
            /\ self' = Unconstructed]_vars

\* C15 witness: a requester built without arguments whose key comes from the
\* process environment and whose secret comes from the .env file
C15_Witness ==
    /\ pc = "constructed"
    /\ env.api_key = None
    /\ env.api_secret = None
    /\ self.api_key = "env_APCA_API_KEY_ID"
    /\ env.dotenv.vars["APCA_API_KEY_ID"] # None
    /\ self.api_secret = "file_APCA_API_SECRET_KEY"

\* C16: after any calls of configure_logging the logger has one file handler,
\* followed by one console handler exactly when the last call had to_console
\* true, and no other handler.
C16_OneHandlerEach ==
    logCalls # << >> =>
        handlers = <<"file">> \o (IF logCalls[Len(logCalls)] THEN <<"console">> ELSE << >>)

\* C16 witness: configure_logging was called with to_console true and then
\* with to_console false, and the console handler is gone
C16_Witness ==
    /\ Len(logCalls) = 2
    /\ logCalls[1]
    /\ ~logCalls[2]
    /\ handlers = <<"file">>


\* C17: a rate-limit wait is taken only between a processed page that named a
\* next token and the request for that token, with remaining == 0; the sleep
\* that comes with a 429 is the fixed delay and nothing else; so no rate-limit
\* wait precedes the first request, follows the last page or precedes a retry.
C17_WaitOnlyOnAdvance ==
    [][Len(waits') > Len(waits) =>
        LET w == waits'[Len(waits')]
        IN  /\ Len(waits') = Len(waits) + 1
            /\ w.kind \in {"rate_limit", "retry"}
            /\ w.kind = "rate_limit" =>
                /\ requests' = requests
                /\ NumRequests > 0
                /\ LastRequest.outcome = "page"
                /\ LastRequest.token # None
                /\ next_page_token = LastRequest.token
                /\ w.remaining = 0
                /\ rate_limit_remaining = 0
            /\ w.kind = "retry" =>
                /\ NumRequests' = NumRequests + 1
                /\ requests'[NumRequests'].status = 429
                /\ w.ticks = RetryDelay * TicksPerSecond]_vars

\* C17 witness: the run waited once, between its two pages, and returned
\* without a wait after the last page although remaining was 0
C17_Witness ==
    /\ pc = "returned"
    /\ NumRequests = 2
    /\ rate_limit_remaining = 0
    /\ Len(waits) = 1
    /\ waits[1].kind = "rate_limit"

\* a URL or an options dict without its page_token parameters
StripToken(u) == SelectSeq(u, LAMBDA kv : kv[1] # "page_token")

\* the page_token parameters of a URL that continues from token
TokenParams(token) == IF token = None THEN << >> ELSE << <<"page_token", token>> >>

\* C18: every request URL is the URL built from symbols, timeframe and the
\* options without page_token, followed by at most one page_token; the URL of
\* the first request ends with the resume token of the options; and the
\* page_token of every request is the continuation token held when it is made.
C18_SharedBaseUrl ==
    /\ [](/\ PageTokensOf(base_url) = << >>
          /\ \A i \in 1..NumRequests :
              /\ StripToken(requests[i].url) =
                     make_bars_url(symbols, timeframe, StripToken(api_options))
              /\ Len(PageTokensOf(requests[i].url)) <= 1
              /\ requests[i].url =
                     StripToken(requests[i].url) \o PageTokensOf(requests[i].url))
    /\ [][/\ (pc = "call" /\ pc' = "initial_request") =>
              /\ base_url' = make_bars_url(symbols, timeframe, StripToken(api_options))
              /\ url' = base_url' \o PageTokensOf(api_options)
          /\ NumRequests' = NumRequests + 1 =>
              /\ requests'[NumRequests'].url = url'
              /\ url' = base_url \o TokenParams(IF pc = "initial_request"
                                                THEN start_page_token
                                                ELSE next_page_token)]_vars

\* C18 witness: a call with a resume token has made two requests: the first
\* carried the resume token after the base URL and received 429, the second
\* was built from the same base URL and fetched a page
C18_Witness ==
    /\ NumRequests = 2
    /\ requests[2].outcome = "page"
    /\ requests[1].status = 429
    /\ PageTokensOf(requests[1].url) = << <<"page_token", Tok(1)>> >>
    /\ requests[1].url = base_url \o PageTokensOf(requests[1].url)
    /\ StripToken(requests[2].url) = base_url

\* C19: when get_bars has returned or raised to its caller, every progress bar
\* created during the call is closed and self.pbars is empty; a normal return
\* carries no exception; and an exception raised inside get_bars reaches the
\* caller unchanged.
C19_PbarsClosed ==
    /\ [](Terminated =>
            /\ pbars = {}
            /\ closed = 1..pbarCount
            /\ depth = 0
            /\ (pc = "returned") = (exc = NoExc))
    /\ [][pc = "raise" => (exc' = exc /\ pc' \in {"raise", "raised"})]_vars

\* C19 witness: the run failed inside the nested call of a 429 retry, and both
\* progress bars are closed
C19_Witness ==
    /\ pc = "raised"
    /\ pbarCount = 2
    /\ closed = {1, 2}
    /\ pbars = {}
    /\ requests[1].status = 429


============================================================================
